---- MODULE Spec2Model ----
(***************************************************************************)
(* Model of ios_burp_setup.py: the profile builder (build_profile and      *)
(* _sanitize_identifier), the one-shot startup in main(), and the          *)
(* ThreadingHTTPServer / ProfileHandler serving phase.                     *)
(*                                                                         *)
(* Strings are sequences of characters.  An input character is one of the  *)
(* tokens of InputChars, each standing for a class of Unicode code points  *)
(* that the code treats alike.  The literal "wifi" is spelled out; the     *)
(* other literals a string is built from ("com.example.wifi.", " Wi-Fi",   *)
(* an IP address) are single fragments.                                    *)
(***************************************************************************)
EXTENDS Integers, Sequences, FiniteSets, TLC

\* ---------------------------------------------------------------- bounds
MaxLen == 3
MaxBuilds == 2
MaxConns == 2

\* ------------------------------------------------------ program constants
PROXY_PORT == 8082
PROFILE_FILENAME == "burp-wifi-proxy.mobileconfig"

\* ------------------------------------------------------------ characters
\* "a", "G", "5": ASCII letters and digits.  "E_ACUTE": a non-ASCII letter
\* (U+00E9).  "SPACE", "SLASH": ASCII characters outside the identifier
\* set.  "EMOJI": U+1F600.  "CTRL_01": the control character U+0001.
\* "SURROGATE": a lone surrogate (U+DC80), which argv decoding with
\* surrogateescape produces for an undecodable byte.
\* "w", "i", "f" occur only in the program's own literal "wifi".
AsciiAlnum == {"a", "G", "5", "w", "i", "f"}
InputChars == {"a", "5", "-", ".", "SPACE", "SLASH", "EMOJI", "E_ACUTE", "CTRL_01", "SURROGATE"}

\* str.isalnum() is Unicode-aware: true of every letter or digit.
isalnum(ch) == ch \in AsciiAlnum \cup {"E_ACUTE"}

RECURSIVE lstrip_dot(_)
lstrip_dot(s) == IF s # <<>> /\ Head(s) = "." THEN lstrip_dot(Tail(s)) ELSE s

RECURSIVE rstrip_dot(_)
rstrip_dot(s) ==
    IF s # <<>> /\ s[Len(s)] = "." THEN rstrip_dot(SubSeq(s, 1, Len(s) - 1)) ELSE s

\* str.strip("."): removes leading and trailing dots.
strip_dot(s) == rstrip_dot(lstrip_dot(s))

IsIdentChar(ch) == isalnum(ch) \/ ch \in {"-", "."}

_sanitize_identifier(value) == strip_dot(SelectSeq(value, IsIdentChar))

\* ------------------------------------------------------------- plistlib
\* plistlib's XML writer rejects a string holding a control character
\* (ValueError) and cannot encode a lone surrogate (UnicodeEncodeError).
StrExc(s) ==
    IF \E i \in 1..Len(s) : s[i] = "CTRL_01" THEN "ValueError"
    ELSE IF \E i \in 1..Len(s) : s[i] = "SURROGATE" THEN "UnicodeEncodeError"
    ELSE "none"

RECURSIVE FirstExc(_)
FirstExc(strs) ==
    IF strs = <<>> THEN "none"
    ELSE IF StrExc(Head(strs)) # "none" THEN StrExc(Head(strs))
    ELSE FirstExc(Tail(strs))

\* The user-dependent strings of the payload in the order the writer emits
\* them (dictionary keys are written sorted).
PayloadStrings(payload) ==
    << payload.PayloadContent[1].PayloadDisplayName,
       payload.PayloadContent[1].PayloadIdentifier,
       payload.PayloadContent[1].ProxyServer,
       payload.PayloadContent[1].SSID_STR,
       payload.PayloadIdentifier >>

\* plistlib.dumps(payload, fmt=FMT_XML): the XML bytes, or an exception.
dumps(payload) ==
    LET e == FirstExc(PayloadStrings(payload))
    IN  [ok |-> e = "none", exc |-> e,
         data |-> IF e = "none" THEN << [fmt |-> "FMT_XML", root |-> payload] >> ELSE <<>>]

\* ---------------------------------------------------------- build_profile
\* _sanitize_identifier(ssid) or "wifi"
Identifier(sanitized_ssid) == IF sanitized_ssid = <<>> THEN <<"w", "i", "f", "i">> ELSE sanitized_ssid

build_payload(ssid, proxy_ip, profile_uuid, wifi_uuid) ==
    LET sanitized_ssid == Identifier(_sanitize_identifier(ssid))
    IN  [ PayloadContent |-> <<
            [ AutoJoin |-> TRUE,
              EncryptionType |-> "Any",
              HIDDEN_NETWORK |-> FALSE,
              PayloadDescription |-> "Configures Wi-Fi proxy settings",
              PayloadDisplayName |-> ssid \o <<" Wi-Fi">>,
              PayloadIdentifier |-> <<"com.example.wifi.">> \o sanitized_ssid,
              PayloadType |-> "com.apple.wifi.managed",
              PayloadUUID |-> wifi_uuid,
              PayloadVersion |-> 1,
              ProxyType |-> "Manual",
              ProxyServer |-> proxy_ip,
              ProxyServerPort |-> PROXY_PORT,
              SSID_STR |-> ssid ] >>,
          PayloadDescription |-> "Installs Wi-Fi proxy settings for Burp Suite",
          PayloadDisplayName |-> "Burp Suite Wi-Fi Proxy",
          PayloadIdentifier |-> <<"com.example.burp-proxy.">> \o sanitized_ssid,
          PayloadOrganization |-> "Burp Proxy Setup",
          PayloadType |-> "Configuration",
          PayloadUUID |-> profile_uuid,
          PayloadVersion |-> 1 ]

\* uuid.uuid4() is a draw of 122 random bits; it is modelled as the issue of
\* a token never issued before (issued = number of tokens issued so far).
uuid4(issued) == issued + 1

ProfileUuid(issued) == uuid4(issued)
WifiUuidReused(issued) == uuid4(issued)
WifiUuid(issued) == uuid4(issued + 1)

\* The outcome of one call of build_profile when `issued` tokens have been
\* issued: the serialized document or the exception, and the local
\* sanitized_ssid.
build_profile(ssid, proxy_ip, issued) ==
    LET r == dumps(build_payload(ssid, proxy_ip, ProfileUuid(issued), WifiUuid(issued)))
    IN  [ok |-> r.ok, exc |-> r.exc, data |-> r.data,
         sanitized_ssid |-> Identifier(_sanitize_identifier(ssid))]

\* ------------------------------------------------------------------ inputs
RECURSIVE SeqsUpTo(_, _)
SeqsUpTo(S, n) ==
    IF n = 0 THEN {<<>>}
    ELSE LET shorter == SeqsUpTo(S, n - 1)
         IN  shorter \cup {Append(s, ch) : s \in {t \in shorter : Len(t) = n - 1}, ch \in S}

SsidInputs == SeqsUpTo(InputChars, MaxLen)
ProxyInputs == {<<"10.0.0.5">>, <<>>, <<"CTRL_01">>}
\* The SSIDs of the runs of the whole program: "a 5" stands for an SSID
\* such as "Office 5G", the second one for an SSID the serializer rejects.
ExampleSsids == {<<"a", "SPACE", "5">>, <<"CTRL_01">>}

Conns == 1..MaxConns
\* The requests clients send: every path by GET, and by HEAD the
\* artifact's own file name.
Paths == {"/", "/download", "/nonexistent", "/burp-wifi-proxy.mobileconfig"}
Requests == {<<"GET", p>> : p \in Paths} \cup {<<"HEAD", "/burp-wifi-proxy.mobileconfig">>}

\* ------------------------------------------------------------------- state
VARIABLES
    ssid,          \* args.ssid
    ip_address,    \* the proxy host handed to build_profile
    calls,         \* outcomes of the calls of build_profile, in call order
    issued,        \* number of uuid4 tokens issued
    pc,            \* main thread: the call of main() to make next, or its phase
    trace,         \* the calls main() has made, in order
    file,          \* the artifact in the working directory
    writes,        \* number of times the artifact was written
    stdout,        \* lines printed
    exit_status,   \* process exit status, -1 while running
    conns          \* per connection: its worker's position and its response

vars == <<ssid, ip_address, calls, issued, pc, trace, file, writes, stdout, exit_status, conns>>

NoBody == [kind |-> "none", bytes |-> <<>>]
NoConn == [state |-> "closed", method |-> "", path |-> "", status |-> 0,
           ctype |-> "", disp |-> <<>>, body |-> NoBody, exc |-> "none", missing |-> FALSE]
NoFile == [exists |-> FALSE, bytes |-> <<>>]

\* The statements of main() in program order.
MainOrderServeFirst == <<"get_local_ip", "build_profile", "print", "run_server", "write_profile">>
MainOrder == <<"get_local_ip", "build_profile", "write_profile", "print", "run_server">>

AfterCall ==
    IF Len(trace) + 1 < Len(MainOrder) THEN MainOrder[Len(trace) + 2] ELSE "returned"

Init ==
    /\ ssid \in ExampleSsids
    /\ ip_address = <<>>
    /\ calls = <<>>
    /\ issued = 0
    /\ pc = MainOrder[1]
    /\ trace = <<>>
    /\ file = NoFile
    /\ writes = 0
    /\ stdout = <<>>
    /\ exit_status = -1
    /\ conns = [c \in Conns |-> NoConn]

\* ------------------------------------------------------------------ main()
\* get_local_ip(): the locally bound address, or 127.0.0.1 on OSError.
get_local_ip ==
    /\ pc = "get_local_ip"
    /\ ip_address' \in {<<"192.168.1.7">>, <<"127.0.0.1">>}
    /\ pc' = AfterCall
    /\ trace' = Append(trace, "get_local_ip")
    /\ UNCHANGED <<ssid, calls, issued, file, writes, stdout, exit_status, conns>>

\* profile_data = build_profile(args.ssid, ip_address); an exception of the
\* serializer is not caught and ends the process with a traceback.
Build ==
    /\ pc = "build_profile"
    /\ LET r == build_profile(ssid, ip_address, issued)
       IN  /\ calls' = Append(calls, r)
           /\ issued' = issued + 2
           /\ IF r.ok
              THEN pc' = AfterCall /\ exit_status' = exit_status
              ELSE pc' = "crashed" /\ exit_status' = 1
    /\ trace' = Append(trace, "build_profile")
    /\ UNCHANGED <<ssid, ip_address, file, writes, stdout, conns>>

\* write_profile(profile_data, profile_path)
write_profile ==
    /\ pc = "write_profile"
    /\ file' = [exists |-> TRUE, bytes |-> calls[Len(calls)].data]
    /\ writes' = writes + 1
    /\ pc' = AfterCall
    /\ trace' = Append(trace, "write_profile")
    /\ UNCHANGED <<ssid, ip_address, calls, issued, stdout, exit_status, conns>>

\* the three print() calls and print_qr(url)
PrintInfo ==
    /\ pc = "print"
    /\ stdout' = stdout \o <<"Profile written to", "Serving profile at",
                             "Scan this QR code on your iOS device:", "QR">>
    /\ pc' = AfterCall
    /\ trace' = Append(trace, "print")
    /\ UNCHANGED <<ssid, ip_address, calls, issued, file, writes, exit_status, conns>>

\* run_server(): the listening socket is bound and serve_forever() entered,
\* or the bind fails (port in use) and the OSError ends the process.
run_server ==
    /\ pc = "run_server"
    /\ \/ pc' = "serve_forever" /\ exit_status' = exit_status
       \/ pc' = "crashed" /\ exit_status' = 1
    /\ trace' = Append(trace, "run_server")
    /\ UNCHANGED <<ssid, ip_address, calls, issued, file, writes, stdout, conns>>

\* ------------------------------------------------------------ the server
\* http.server.ThreadingHTTPServer: process_request starts one thread per
\* accepted connection; a plain HTTPServer handles the request inside the
\* accept loop.
ThreadingOff == FALSE
Threading == TRUE

\* httpd.daemon_threads = True
daemon_threads_off == FALSE
daemon_threads == TRUE

Live == {"open", "sent", "checked"}
NoLiveWorker(cs) == \A c \in Conns : cs[c].state \notin Live

\* serve_forever() can take the next connection off the listening socket.
AcceptReady(cs) == Threading \/ NoLiveWorker(cs)

\* server_close() and interpreter exit join the non-daemon worker threads.
JoinReady(cs) == daemon_threads \/ NoLiveWorker(cs)

\* A client connects to the listening socket.
ClientConnect(c) ==
    /\ pc = "serve_forever"
    /\ conns[c].state = "closed"
    /\ conns' = [conns EXCEPT ![c].state = "queued"]
    /\ UNCHANGED <<ssid, ip_address, calls, issued, pc, trace, file, writes, stdout, exit_status>>

\* serve_forever(): accept and hand the connection to its worker.
Accept(c) ==
    /\ pc = "serve_forever"
    /\ conns[c].state = "queued"
    /\ AcceptReady(conns)
    /\ conns' = [conns EXCEPT ![c].state = "open"]
    /\ UNCHANGED <<ssid, ip_address, calls, issued, pc, trace, file, writes, stdout, exit_status>>

\* The client sends its request line and headers.
ClientSend(c, m, p) ==
    /\ <<m, p>> \in Requests
    /\ pc \in {"serve_forever", "KeyboardInterrupt"}
    /\ conns[c].state = "open"
    /\ conns' = [conns EXCEPT ![c].state = "sent", ![c].method = m, ![c].path = p]
    /\ UNCHANGED <<ssid, ip_address, calls, issued, pc, trace, file, writes, stdout, exit_status>>

\* The artifact is deleted from outside the process.
DeleteFile ==
    /\ pc \in {"serve_forever", "KeyboardInterrupt"}
    /\ file.exists
    /\ file' = NoFile
    /\ UNCHANGED <<ssid, ip_address, calls, issued, pc, trace, writes, stdout, exit_status, conns>>

HtmlPage == [kind |-> "html", bytes |-> <<>>]
ErrorPage == [kind |-> "error", bytes |-> <<>>]

\* send_error(code, message): an HTML error page.
send_error(code, miss) ==
    [state |-> "done", status |-> code, ctype |-> "text/html;charset=utf-8",
     disp |-> <<>>, body |-> ErrorPage, missing |-> miss]

\* do_GET with the download served under the generic binary type.
do_GET_octet_stream(path, f) ==
    IF path \in {"/", ""}
    THEN [state |-> "done", status |-> 200, ctype |-> "text/html; charset=utf-8",
          disp |-> <<>>, body |-> HtmlPage, missing |-> FALSE]
    ELSE IF path = "/download"
    THEN IF ~f.exists
         THEN send_error(404, TRUE)
         ELSE [state |-> "checked", status |-> 200,
               ctype |-> "application/octet-stream",
               disp |-> <<"attachment; filename=", PROFILE_FILENAME>>,
               body |-> NoBody, missing |-> FALSE]
    ELSE send_error(404, FALSE)

\* ProfileHandler.do_GET up to its first return or, for /download with the
\* file present, up to end_headers().
do_GET(path, f) ==
    IF path \in {"/", ""}
    THEN [state |-> "done", status |-> 200, ctype |-> "text/html; charset=utf-8",
          disp |-> <<>>, body |-> HtmlPage, missing |-> FALSE]
    ELSE IF path = "/download"
    THEN IF ~f.exists
         THEN send_error(404, TRUE)
         ELSE [state |-> "checked", status |-> 200,
               ctype |-> "application/x-apple-aspen-config",
               disp |-> <<"attachment; filename=", PROFILE_FILENAME>>,
               body |-> NoBody, missing |-> FALSE]
    ELSE send_error(404, FALSE)

\* SimpleHTTPRequestHandler.do_HEAD, which ProfileHandler inherits: the
\* headers of the file or directory the path names under the working
\* directory, where the artifact lies.
do_HEAD(path, f) ==
    IF path = "/"
    THEN [state |-> "done", status |-> 200, ctype |-> "text/html; charset=utf-8",
          disp |-> <<>>, body |-> NoBody, missing |-> FALSE]
    ELSE IF path = "/burp-wifi-proxy.mobileconfig" /\ f.exists
    THEN [state |-> "done", status |-> 200, ctype |-> "application/octet-stream",
          disp |-> <<>>, body |-> NoBody, missing |-> FALSE]
    ELSE [state |-> "done", status |-> 404, ctype |-> "text/html;charset=utf-8",
          disp |-> <<>>, body |-> NoBody, missing |-> FALSE]

\* BaseHTTPRequestHandler.handle_one_request: dispatch on the method.
Dispatch(m, path, f) == IF m = "GET" THEN do_GET(path, f) ELSE do_HEAD(path, f)

\* The peer may reset or close the connection under a read or write.
TransportFaults == {"ConnectionResetError", "BrokenPipeError"}

\* An exception in a worker: handle_one_request swallows ConnectionResetError
\* and process_request_thread reports any other one; the main thread goes on.
handle_error_propagates(p) == "crashed"
handle_error(p) == p

\* Both transport faults are ConnectionError subclasses and end the worker
\* alike; the connection records the class.
FaultClass(e) == IF e \in TransportFaults THEN "ConnectionError" ELSE e

Aborted(r, e) == [r EXCEPT !.state = "aborted", !.exc = FaultClass(e)]

\* The worker handles the request it has read.
Handle(c) ==
    /\ pc \in {"serve_forever", "KeyboardInterrupt"}
    /\ conns[c].state = "sent"
    /\ LET r == Dispatch(conns[c].method, conns[c].path, file)
       IN  \/ /\ conns' = [conns EXCEPT ![c].state = r.state, ![c].status = r.status,
                                        ![c].ctype = r.ctype, ![c].disp = r.disp,
                                        ![c].body = r.body, ![c].missing = r.missing]
              /\ pc' = pc
           \/ \E e \in TransportFaults :
                /\ conns' = [conns EXCEPT ![c] = Aborted(NoConn, e)]
                /\ pc' = handle_error(pc)
    /\ UNCHANGED <<ssid, ip_address, calls, issued, trace, file, writes, stdout, exit_status>>

\* self.wfile.write(self.profile_path.read_bytes())
SendFile(c) ==
    /\ pc \in {"serve_forever", "KeyboardInterrupt"}
    /\ conns[c].state = "checked"
    /\ IF ~file.exists
       THEN /\ conns' = [conns EXCEPT ![c] = [Aborted(@, "FileNotFoundError") EXCEPT !.missing = TRUE]]
            /\ pc' = handle_error(pc)
       ELSE \/ /\ conns' = [conns EXCEPT ![c].state = "done",
                                         ![c].body = [kind |-> "file", bytes |-> file.bytes]]
               /\ pc' = pc
            \/ \E e \in TransportFaults :
                 /\ conns' = [conns EXCEPT ![c] = Aborted(@, e)]
                 /\ pc' = handle_error(pc)
    /\ UNCHANGED <<ssid, ip_address, calls, issued, trace, file, writes, stdout, exit_status>>

\* The client resets the connection before sending a request: the worker's
\* read of the request line fails.
ReadReset(c) ==
    /\ pc \in {"serve_forever", "KeyboardInterrupt"}
    /\ conns[c].state = "open"
    /\ conns' = [conns EXCEPT ![c] = Aborted(@, "ConnectionResetError")]
    /\ pc' = handle_error(pc)
    /\ UNCHANGED <<ssid, ip_address, calls, issued, trace, file, writes, stdout, exit_status>>

\* The operator interrupts the process: KeyboardInterrupt is raised in
\* serve_forever().
Interrupt ==
    /\ pc = "serve_forever"
    /\ pc' = "KeyboardInterrupt"
    /\ UNCHANGED <<ssid, ip_address, calls, issued, trace, file, writes, stdout, exit_status, conns>>

\* The with block closes the server, main() prints the notice and returns,
\* and the interpreter exits, ending the daemon threads.
Shutdown ==
    /\ pc = "KeyboardInterrupt"
    /\ JoinReady(conns)
    /\ stdout' = Append(stdout, "Shutting down server.")
    /\ exit_status' = 0
    /\ pc' = "exited"
    /\ conns' = [c \in Conns |->
                    IF conns[c].state \in Live THEN [NoConn EXCEPT !.state = "killed"]
                    ELSE conns[c]]
    /\ UNCHANGED <<ssid, ip_address, calls, issued, trace, file, writes>>

Worker(c) == Handle(c) \/ SendFile(c)

Next ==
    \/ get_local_ip
    \/ Build
    \/ write_profile
    \/ PrintInfo
    \/ run_server
    \/ Interrupt
    \/ Shutdown
    \/ DeleteFile
    \/ \E c \in Conns : ClientConnect(c)
    \/ \E c \in Conns : Accept(c)
    \/ \E c \in Conns, r \in Requests : ClientSend(c, r[1], r[2])
    \/ \E c \in Conns : Handle(c)
    \/ \E c \in Conns : SendFile(c)
    \/ \E c \in Conns : ReadReset(c)

Spec == Init /\ [][Next]_vars

\* The main thread and every worker thread are scheduled; clients and the
\* operator are under no obligation.
FairSpec ==
    /\ Spec
    /\ WF_vars(Shutdown)
    /\ \A c \in Conns : WF_vars(Accept(c)) /\ WF_vars(Worker(c))

\* -------------------------------------------- the builder called on its own
InitBuild ==
    /\ ssid \in SsidInputs
    /\ ip_address \in ProxyInputs
    /\ calls = <<>>
    /\ issued = 0
    /\ pc = "caller"
    /\ trace = <<>>
    /\ file = NoFile
    /\ writes = 0
    /\ stdout = <<>>
    /\ exit_status = -1
    /\ conns = [c \in Conns |-> NoConn]

\* One call of build_profile(ssid, proxy_ip) by a caller that survives its
\* exceptions.
CallBuild ==
    /\ pc = "caller"
    /\ Len(calls) < MaxBuilds
    /\ calls' = Append(calls, build_profile(ssid, ip_address, issued))
    /\ issued' = issued + 2
    /\ UNCHANGED <<ssid, ip_address, pc, trace, file, writes, stdout, exit_status, conns>>

NextBuild == CallBuild

SpecBuild == InitBuild /\ [][NextBuild]_vars

\* ================================================================ claims

IdentifierChars == AsciiAlnum \cup {"-", "."}

\* C1: the identifier build_profile derives from any input string is
\* non-empty, consists only of characters in [A-Za-z0-9.-] and neither
\* starts nor ends with a dot.
C1_IdentifierSafe ==
    \A i \in 1..Len(calls) :
        LET id == calls[i].sanitized_ssid
        IN  /\ id # <<>>
            /\ \A j \in 1..Len(id) : id[j] \in IdentifierChars
            /\ id[1] # "."
            /\ id[Len(id)] # "."

\* C2: build_profile returns a serialized document for every pair of
\* strings; no call ends in an exception.
C2_BuildNeverRaises ==
    \A i \in 1..Len(calls) : calls[i].ok /\ calls[i].data # <<>>

DownloadRequest(c) == conns[c].method = "GET" /\ conns[c].path = "/download"

\* C3: a GET /download handled with the artifact present is answered with
\* status 200, Content-Type application/x-apple-aspen-config,
\* Content-Disposition "attachment; filename=burp-wifi-proxy.mobileconfig"
\* and the bytes written to disk at startup.
C3_DownloadServesArtifact ==
    \A c \in Conns :
        (DownloadRequest(c) /\ conns[c].state = "done" /\ ~conns[c].missing) =>
            /\ conns[c].status = 200
            /\ conns[c].ctype = "application/x-apple-aspen-config"
            /\ conns[c].disp = <<"attachment; filename=", "burp-wifi-proxy.mobileconfig">>
            /\ conns[c].body.kind = "file"
            /\ conns[c].body.bytes # <<>>
            /\ conns[c].body.bytes = calls[1].data

C3_Witness ==
    \E c \in Conns :
        /\ DownloadRequest(c) /\ conns[c].state = "done" /\ conns[c].status = 200
        /\ file.exists

\* C4: every GET /download whose handler finds the artifact missing is
\* answered with status 404, never with a 200 status line and a failed
\* body; the server does not crash and GET / is still answered with 200.
C4_MissingArtifactIs404 ==
    /\ \A c \in Conns :
          (DownloadRequest(c) /\ conns[c].missing) =>
              conns[c].status = 404 /\ conns[c].state = "done"
    /\ \A c \in Conns :
          (conns[c].method = "GET" /\ conns[c].path = "/" /\ conns[c].state = "done") =>
              conns[c].status = 200
    /\ (\E c \in Conns : conns[c].state # "closed") => pc # "crashed"

FixedRoutes == {"/", "", "/download"}

\* C5: a request to a path other than "/", "" and "/download" is answered
\* with 404 whether or not the artifact exists, and 200 is answered on the
\* fixed routes only.
C5_OnlyFixedRoutes ==
    \A c \in Conns :
        conns[c].state = "done" =>
            /\ conns[c].path \notin FixedRoutes => conns[c].status = 404
            /\ conns[c].status = 200 => conns[c].path \in FixedRoutes

Root(call) == call.data[1].root

Scrub(payload) ==
    [payload EXCEPT !.PayloadUUID = 0, !.PayloadContent[1].PayloadUUID = 0]

\* C6: two calls of build_profile with the same arguments give documents
\* whose top-level PayloadUUIDs differ, whose Wi-Fi payload PayloadUUIDs
\* differ, whose two UUIDs differ within each document, and which agree in
\* every other field.
C6_FreshUuidsSameRest ==
    \A i, j \in 1..Len(calls) :
        (i < j /\ calls[i].ok /\ calls[j].ok) =>
            LET a == Root(calls[i])
                b == Root(calls[j])
            IN  /\ a.PayloadUUID # b.PayloadUUID
                /\ a.PayloadContent[1].PayloadUUID # b.PayloadContent[1].PayloadUUID
                /\ a.PayloadUUID # a.PayloadContent[1].PayloadUUID
                /\ b.PayloadUUID # b.PayloadContent[1].PayloadUUID
                /\ Scrub(a) = Scrub(b)
                /\ a.PayloadIdentifier = b.PayloadIdentifier
                /\ a.PayloadContent[1].PayloadIdentifier = b.PayloadContent[1].PayloadIdentifier

C6_Witness ==
    /\ Len(calls) >= 2
    /\ calls[1].ok /\ calls[2].ok
    /\ _sanitize_identifier(ssid) # ssid

Finished == {"done", "aborted", "killed"}

\* C7: a connection waiting on the listening socket is accepted (it gets its
\* worker, state "open") for as long as the server listens, and a request
\* a worker has received is answered or its connection ended, whatever the
\* other connections do.
C7_NoRequestBlocksAnother ==
    \A c \in Conns :
        (conns[c].state \in {"queued", "sent"}) ~>
            \/ conns[c].state = "queued" /\ pc # "serve_forever"
            \/ conns[c].state = "open"
            \/ conns[c].state \in Finished

C7_Witness ==
    \E c, d \in Conns :
        /\ c # d
        /\ conns[c].state = "open"
        /\ conns[d].state = "checked" /\ conns[d].status = 200
        /\ pc = "serve_forever"

\* C8: a transport fault on a connection ends that connection's handling
\* only: the main thread's phase, the exit status and every other
\* connection are left as they were, and the process never crashes once
\* it has a connection.
C8_FaultStaysInConnection ==
    /\ [][\A c \in Conns :
            (conns[c].state \in Live /\ conns'[c].state = "aborted") =>
                /\ pc' = pc
                /\ exit_status' = exit_status
                /\ \A d \in Conns \ {c} : conns'[d] = conns[d]]_vars
    /\ []((\E c \in Conns : conns[c].state # "closed") => pc # "crashed")

C8_Witness ==
    \E c, d \in Conns :
        /\ conns[c].state = "aborted" /\ conns[c].exc = "ConnectionError"
        /\ conns[c].status = 200
        /\ c # d /\ conns[d].state = "queued"
        /\ pc = "serve_forever"

\* C9: after an operator interrupt in the serving phase the process prints
\* the shutdown notice and exits with status 0, without waiting for the
\* workers that are still handling requests.
C9_InterruptExits ==
    /\ (pc = "KeyboardInterrupt") ~>
          (pc = "exited" /\ exit_status = 0 /\ stdout[Len(stdout)] = "Shutting down server.")
    /\ [](pc = "exited" => exit_status = 0)

C9_Witness ==
    /\ pc = "exited"
    /\ exit_status = 0
    /\ \E c \in Conns : conns[c].state = "killed"

StartupOrder == <<"get_local_ip", "build_profile", "write_profile", "print", "run_server">>

\* C10: main() calls address discovery, build, write, print and serve in
\* this order; no connection exists before the artifact is written; the
\* artifact is written once; no step of the serving phase writes it.
C10_SequentialStartup ==
    /\ [](/\ Len(trace) <= Len(StartupOrder)
          /\ trace = SubSeq(StartupOrder, 1, Len(trace))
          /\ writes <= 1
          /\ (pc \in {"serve_forever", "KeyboardInterrupt", "exited"} => writes = 1)
          /\ ((\E c \in Conns : conns[c].state # "closed") =>
                 writes = 1 /\ stdout # <<>>))
    /\ [][(\E c \in Conns : conns'[c] # conns[c]) =>
             (file' = file /\ writes' = writes)]_vars
    /\ [][(file' # file /\ file'.exists) => pc = "write_profile"]_vars

C10_Witness ==
    /\ writes = 1
    /\ \E c \in Conns : conns[c].state = "done" /\ conns[c].body.kind = "file"

====
